---- MODULE Spec2Model ----
(***************************************************************************)
(* Kindle highlight pipeline: the Extractor (extract-from-kindle.ts), the  *)
(* Staging List metadata reader (utils.ts) and the Translator              *)
(* (translate.ts), with the two files they share.                          *)
(*                                                                         *)
(* Text.  A string is a sequence of tokens; a token is a TLA+ string that  *)
(* stands for a run of characters the code never looks inside (a word, a   *)
(* marker, one digit, one punctuation character).  A file with content c   *)
(* is the sequence c.split("\n") of its lines, so a file that exists has   *)
(* at least one line, two files have the same bytes iff they are the same  *)
(* sequence of lines, and the absent file is the empty sequence.           *)
(*                                                                         *)
(* Configuration.  BOOK_NAME, INPUT_FILE and the CSV path are constants    *)
(* the operator edits; the model takes them to name one work, i.e. the     *)
(* Extractor's output file is the Translator's input file.                 *)
(***************************************************************************)
EXTENDS Integers, Sequences, FiniteSets, TLC

\* ------------------------------------------------------------------ bounds
MaxSteps == 3
MaxHeaderLen == 3
MaxBlocks == 3
MaxBatchSize == 3

\* ------------------------------------------------------------------ tokens
TranslateFromMarker == "# Translate from: "
LastProcessedMarker == "# Last processed:"
IndexLabel == " Index: "
PipeTranslateFrom == " | Translate from: "
Space == " "
Comma == ","
Dot == "."
Quote == "\""
Newline == "\n"
TranslationFailed == "[Translation failed]"
TranslationError == "[Translation error]"
BOOK_NAME == "L'homme qui savait la langue des serpents"
OtherBook == "Another book"
Digits == <<"0", "1", "2", "3", "4", "5", "6", "7", "8", "9">>

NoFile == <<>>
EmptyLine == <<>>
\* h.text when the block has no third line; Array.join writes it as "".
Undefined == <<"\\undefined">>

IsDigit(t) == \E i \in 1..10 : Digits[i] = t
DigitVal(t) == (CHOOSE i \in 1..10 : Digits[i] = t) - 1

\* ------------------------------------------------------- string operations
RECURSIVE NumToStr(_)
\* Number.prototype.toString / template literal ${n}, base 10
NumToStr(n) ==
  IF n < 0 THEN <<"-">> \o NumToStr(0 - n)
  ELSE IF n < 10 THEN <<Digits[n + 1]>>
  ELSE NumToStr(n \div 10) \o <<Digits[(n % 10) + 1]>>

RECURSIVE DigitRun(_, _)
\* the maximal run of digits of s starting at position i: what (\d+) captures
DigitRun(s, i) ==
  IF i <= Len(s) /\ IsDigit(s[i]) THEN <<s[i]>> \o DigitRun(s, i + 1) ELSE <<>>

RECURSIVE ParseDigits(_, _)
ParseDigits(ds, acc) ==
  IF ds = <<>> THEN acc ELSE ParseDigits(Tail(ds), 10 * acc + DigitVal(Head(ds)))

\* parseInt(s, 10) of a string that starts with at least one digit
ParseInt(s) == ParseDigits(DigitRun(s, 1), 0)

StartsWith(s, marker) == Len(s) >= 1 /\ s[1] = marker

RECURSIVE TrimLeft(_)
TrimLeft(s) == IF s # <<>> /\ Head(s) = Space THEN TrimLeft(Tail(s)) ELSE s

RECURSIVE TrimRight(_)
TrimRight(s) ==
  IF s # <<>> /\ s[Len(s)] = Space THEN TrimRight(SubSeq(s, 1, Len(s) - 1)) ELSE s

\* String.prototype.trim
Trim(s) == TrimRight(TrimLeft(s))

\* toLocaleLowerCase of one token
LowerToken(t) ==
  CASE t = "FOO" -> "foo"
    [] t = "BAR" -> "bar"
    [] t = "Ola" -> "ola"
    [] t = TranslationFailed -> "[translation failed]"
    [] t = TranslationError -> "[translation error]"
    [] t = TranslateFromMarker -> "# translate from: "
    [] t = LastProcessedMarker -> "# last processed:"
    [] t = IndexLabel -> " index: "
    [] t = PipeTranslateFrom -> " | translate from: "
    [] OTHER -> t

ToLowerCase(s) == [i \in 1..Len(s) |-> LowerToken(s[i])]

RECURSIVE Remove(_, _)
\* s.replace(/c/g, "")
Remove(s, c) ==
  IF s = <<>> THEN <<>>
  ELSE IF Head(s) = c THEN Remove(Tail(s), c)
  ELSE <<Head(s)>> \o Remove(Tail(s), c)

\* s.replace(/c/g, d)
Replace(s, c, d) == [i \in 1..Len(s) |-> IF s[i] = c THEN d ELSE s[i]]

\* s.lastIndexOf(","), 0-based, -1 when there is none
LastIndexOfComma(s) ==
  IF \E i \in 1..Len(s) : s[i] = Comma
  THEN (CHOOSE i \in 1..Len(s) :
          s[i] = Comma /\ \A j \in (i + 1)..Len(s) : s[j] # Comma) - 1
  ELSE 0 - 1

Max(a, b) == IF a >= b THEN a ELSE b
Min(a, b) == IF a <= b THEN a ELSE b

\* s.substring(a, b) for a, b that may be negative or past the end
Substring(s, a, b) ==
  LET lo == Min(Max(Min(a, b), 0), Len(s))
      hi == Min(Max(Max(a, b), 0), Len(s))
  IN SubSeq(s, lo + 1, hi)

\* arr.slice(start): a negative start counts from the end
Slice(arr, start) ==
  LET from == IF start < 0 THEN Max(Len(arr) + start, 0) ELSE Min(start, Len(arr))
  IN SubSeq(arr, from + 1, Len(arr))

RECURSIVE JoinLines(_)
\* lines.join("\n")
JoinLines(lines) ==
  IF lines = <<>> THEN <<>>
  ELSE IF Len(lines) = 1 THEN lines[1]
  ELSE lines[1] \o <<Newline>> \o JoinLines(Tail(lines))

RECURSIVE SplitFrom(_, _)
SplitFrom(content, line) ==
  IF content = <<>> THEN <<line>>
  ELSE IF Head(content) = Newline THEN <<line>> \o SplitFrom(Tail(content), <<>>)
  ELSE SplitFrom(Tail(content), Append(line, Head(content)))

\* content.split("\n"): the lines of a file with this content
SplitLines(content) == SplitFrom(content, <<>>)

NonEmpty(s) == Len(s) > 0
NonBlank(s) == Len(Trim(s)) > 0

\* ------------------------------------------------------------- utils.ts
\* lines[0].match(/Translate from: (\d+)/): the leftmost place where the text
\* "Translate from: " is followed by a digit; 0 when there is no match
TranslateFromMatchPos(line) ==
  LET hits == {i \in 1..Len(line) :
                 /\ line[i] \in {TranslateFromMarker, PipeTranslateFrom}
                 /\ i + 1 <= Len(line)
                 /\ IsDigit(line[i + 1])}
  IN IF hits = {} THEN 0 ELSE CHOOSE i \in hits : \A j \in hits : i <= j

\* as getFileMetadata, with 0 where the code has the sentinel -1
getFileMetadataZeroDefault(file) ==
  IF file = NoFile
  THEN [lastProcessedIndex |-> 0, translateFromIndex |-> 0]
  ELSE LET lines == file
           pos == TranslateFromMatchPos(lines[1])
       IN [lastProcessedIndex |-> 0,
           translateFromIndex |->
             IF StartsWith(lines[1], TranslateFromMarker) /\ pos # 0
             THEN ParseInt(DigitRun(lines[1], pos + 1)) + 1
             ELSE 0]

getFileMetadata(file) ==
  IF file = NoFile
  THEN [lastProcessedIndex |-> 0 - 1, translateFromIndex |-> 0 - 1]
  ELSE LET lines == file
           pos == TranslateFromMatchPos(lines[1])
       IN [lastProcessedIndex |-> 0 - 1,
           translateFromIndex |->
             IF StartsWith(lines[1], TranslateFromMarker) /\ pos # 0
             THEN ParseInt(DigitRun(lines[1], pos + 1)) + 1
             ELSE 0 - 1]

\* ------------------------------------------------- extract-from-kindle.ts
\* the sanitising chain applied to the highlight line; of the punctuation
\* it replaces by a space the alphabet has the full stop only
SanitizeText(line) ==
  Trim(ToLowerCase(Replace(Remove(line, Comma), Dot, Space)))

\* One export block is entry.split("\n"); the export is the sequence of its
\* blocks (content.split("\r\n==========\r\n")).
BlockLines(entry) == SelectSeq(entry, NonBlank)

IsTargetBlock(entry, targetBook) ==
  LET lines == BlockLines(entry)
  IN /\ Len(lines) >= 2
     /\ \E i \in 1..Len(lines[1]) : lines[1][i] = targetBook

\* as ParseFrom, with the index counted over the blocks of every work
RECURSIVE ParseFromCountingAll(_, _, _)
ParseFromCountingAll(entries, targetBook, highlightIndex) ==
  IF entries = <<>> THEN <<>>
  ELSE IF ~IsTargetBlock(Head(entries), targetBook)
  THEN ParseFromCountingAll(Tail(entries), targetBook, highlightIndex + 1)
  ELSE LET lines == BlockLines(Head(entries))
           text == IF Len(lines) >= 3 THEN SanitizeText(lines[3]) ELSE Undefined
       IN <<[text |-> text, location |-> NumToStr(highlightIndex)]>>
            \o ParseFromCountingAll(Tail(entries), targetBook, highlightIndex + 1)

RECURSIVE ParseFrom(_, _, _)
ParseFrom(entries, targetBook, highlightIndex) ==
  IF entries = <<>> THEN <<>>
  ELSE IF ~IsTargetBlock(Head(entries), targetBook)
  THEN ParseFrom(Tail(entries), targetBook, highlightIndex)
  ELSE LET lines == BlockLines(Head(entries))
           text == IF Len(lines) >= 3 THEN SanitizeText(lines[3]) ELSE Undefined
       IN <<[text |-> text, location |-> NumToStr(highlightIndex)]>>
            \o ParseFrom(Tail(entries), targetBook, highlightIndex + 1)

parseClippings(content, targetBook) ==
  ParseFrom(SelectSeq(content, LAMBDA e : \E i \in 1..Len(e) : NonBlank(e[i])),
            targetBook, 0)

\* as getExistingHighlights, skipping the first line whatever it is
getExistingHighlightsSkipFirst(file) ==
  IF file = NoFile THEN <<>>
  ELSE LET lines == file
           startIndex == 1
           body == SubSeq(lines, startIndex + 1, Len(lines))
       IN SelectSeq([i \in 1..Len(body) |-> Trim(body[i])], NonEmpty)

getExistingHighlights(file) ==
  IF file = NoFile THEN <<>>
  ELSE LET lines == file
           startIndex == IF StartsWith(lines[1], LastProcessedMarker) THEN 1 ELSE 0
           body == SubSeq(lines, startIndex + 1, Len(lines))
       IN SelectSeq([i \in 1..Len(body) |-> Trim(body[i])], NonEmpty)

\* Array.prototype.join writes an undefined element as the empty string
JoinText(t) == IF t = Undefined THEN EmptyLine ELSE t

\* ------------------------------------------------------------ translate.ts
getExistingTranslations(file) ==
  IF file = NoFile THEN <<>>
  ELSE LET lines == SelectSeq(file, NonBlank)
       IN [i \in 1..Len(lines) |->
             LET lastCommaIndex == LastIndexOfComma(lines[i])
             IN [original |-> Substring(lines[i], 0, lastCommaIndex),
                 translation |->
                   Substring(lines[i], lastCommaIndex + 1, Len(lines[i]))]]

\* What one call of the translation capability can do: throw, or answer with
\* a message content; the contents tried are a one-line and a two-line answer.
Throws == <<"\\throws">>
Replies == {<<"Ola", Dot>>, <<"um", Newline, "dois">>}
CallOutcomes == Replies \cup {Throws}

\* the TranslationEntry pushed for one entry, given the call's outcome
TranslationOf(entry, outcome) ==
  IF outcome = Throws
  THEN [original |-> entry, translation |-> <<TranslationError>>]
  ELSE LET content == Trim(Remove(outcome, Dot))
       IN [original |-> entry,
           translation |-> IF content = <<>> THEN <<TranslationFailed>>
                           ELSE content]

\* one line of the CSV
CsvLine(entry) ==
  Remove(entry.original, Quote) \o <<Comma>>
    \o Trim(ToLowerCase(Remove(entry.translation, Quote)))

\* 0-based positions, in lines, of the entries the run translates
PositionsToTranslate(lines, startIndex) ==
  LET from == IF startIndex < 0 THEN Max(Len(lines) + startIndex, 0)
              ELSE Min(startIndex, Len(lines))
  IN SelectSeq([i \in 1..(Len(lines) - from) |-> from + i - 1],
               LAMBDA p : Len(Trim(lines[p + 1])) > 0)

\* ---------------------------------------------------------------- state
VARIABLES
  clippings,   \* the export ("My Clippings.txt"), as its blocks
  txt,         \* the Staging List file
  csv,         \* the Result Table file
  steps,       \* number of operations so far
  last         \* what the last operation was and did

vars == <<clippings, txt, csv, steps, last>>

HighlightBlock(book, text) == <<<<book>>, <<"- Your Highlight">>, EmptyLine, text>>

InitExports ==
  {<<HighlightBlock(BOOK_NAME, <<"FOO", Comma, Space, "cat", Dot>>)>>,
   <<HighlightBlock(BOOK_NAME, <<"foo">>),
     HighlightBlock(OtherBook, <<"dog">>),
     HighlightBlock(BOOK_NAME, <<"bar">>)>>}

TranslateFromHeader(n) == <<TranslateFromMarker>> \o NumToStr(n)
LastProcessedHeader(i) == <<LastProcessedMarker, IndexLabel>> \o NumToStr(i)
FullHeader(i, t) == LastProcessedHeader(i) \o <<PipeTranslateFrom>> \o NumToStr(t)

InitStagingLists ==
  {NoFile,
   <<TranslateFromHeader(0), <<"foo">>, <<"bar">>, EmptyLine>>,
   <<TranslateFromHeader(1), <<"foo">>, <<"bar">>, EmptyLine>>,
   <<LastProcessedHeader(0), <<"foo">>, EmptyLine>>,
   <<FullHeader(0, 0), <<"foo">>, EmptyLine>>,
   <<<<"foo">>, <<"bar">>, EmptyLine>>}

InitResultTables ==
  {NoFile,
   <<<<"foo", Comma, "FOO">>, <<"bar">>>>}

NewEntries == {<<"baz">>}

NoOp(op) ==
  [op |-> op, outcome |-> "none", txtBefore |-> txt, csvBefore |-> csv,
   allHighlights |-> <<>>, newHighlights |-> <<>>,
   startIndex |-> 0, positions |-> <<>>, outcomes |-> <<>>,
   newTranslations |-> <<>>, hasKey |-> TRUE, clippingsExist |-> TRUE,
   entries |-> <<>>, batchSize |-> 0, events |-> <<>>, writes |-> <<>>]

Init ==
  /\ clippings \in InitExports
  /\ txt \in InitStagingLists
  /\ csv \in InitResultTables
  /\ steps = 0
  /\ last = [NoOp("init") EXCEPT !.txtBefore = NoFile, !.csvBefore = NoFile]

\* ------------------------------------------------------------ operations
\* allHighlights.filter((h) => parseInt(h.location, 10) > metadata.translateFromIndex)
NewHighlights(allHighlights, metadata) ==
  SelectSeq(allHighlights,
            LAMBDA h : ParseInt(h.location) > metadata.translateFromIndex)

\* extractFromKindle(); clippingsExist is fs.existsSync(CLIPPINGS_PATH)
ExtractRun(clippingsExist) ==
  /\ steps < MaxSteps
  /\ steps' = steps + 1
  /\ UNCHANGED <<clippings, csv>>
  /\ IF ~clippingsExist
     THEN /\ last' = [NoOp("extract") EXCEPT !.outcome = "fatal",
                                             !.clippingsExist = FALSE]
          /\ UNCHANGED txt
     ELSE LET allHighlights == parseClippings(clippings, BOOK_NAME)
              metadata == getFileMetadata(txt)
              existingHighlights == getExistingHighlights(txt)
              newHighlights == NewHighlights(allHighlights, metadata)
              allHighlightTexts ==
                existingHighlights
                  \o [i \in 1..Len(newHighlights) |-> JoinText(newHighlights[i].text)]
              outputContent == JoinLines(allHighlightTexts) \o <<Newline>>
          IN IF allHighlights = <<>>
             THEN /\ last' = [NoOp("extract") EXCEPT !.outcome = "noop"]
                  /\ UNCHANGED txt
             ELSE IF newHighlights = <<>>
             THEN /\ last' = [NoOp("extract") EXCEPT !.outcome = "noop",
                                                     !.allHighlights = allHighlights]
                  /\ UNCHANGED txt
             ELSE /\ txt' = SplitLines(outputContent)
                  /\ last' = [NoOp("extract") EXCEPT !.outcome = "written",
                                                     !.allHighlights = allHighlights,
                                                     !.newHighlights = newHighlights]

\* as MissingSetup, without the check of the credential
MissingSetupNoKeyCheck(hasKey, file) == file = NoFile

\* the two throws of translateEntries before it reads anything: no
\* OPENAI_API_KEY, no input file
MissingSetup(hasKey, file) == ~hasKey \/ file = NoFile

BATCH_SIZE == 10

\* as TranslateEntry, with the delay inside the try block, so that a call
\* that throws is not followed by it
TranslateEntryNoDelayOnError(entry, outcome, run) ==
  [newTranslations |-> Append(run.newTranslations, TranslationOf(entry, outcome)),
   events |-> run.events \o <<[kind |-> "call", entry |-> entry]>>
                \o IF outcome = Throws THEN <<>>
                   ELSE <<[kind |-> "delay", entry |-> entry]>>]

\* the body of the inner loop for one entry: the call of the capability, the
\* push of its translation or of the error sentinel, then the delay
TranslateEntry(entry, outcome, run) ==
  [newTranslations |-> Append(run.newTranslations, TranslationOf(entry, outcome)),
   events |-> run.events \o <<[kind |-> "call", entry |-> entry],
                              [kind |-> "delay", entry |-> entry]>>]

\* for (const entry of batch); outcomes[k] is what the k-th call of the run does
RECURSIVE TranslateBatch(_, _, _)
TranslateBatch(batch, outcomes, run) ==
  IF batch = <<>> THEN run
  ELSE TranslateBatch(Tail(batch), outcomes,
         TranslateEntry(Head(batch),
                        outcomes[Len(SelectSeq(run.events,
                                               LAMBDA e : e.kind = "call")) + 1],
                        run))

\* as TranslateBatches, going on one entry too far after each batch
RECURSIVE TranslateBatchesSkipping(_, _, _, _, _)
TranslateBatchesSkipping(entries, outcomes, i, batchSize, run) ==
  IF i >= Len(entries) THEN run
  ELSE LET batch == SubSeq(entries, i + 1, Min(i + batchSize, Len(entries)))
       IN TranslateBatchesSkipping(entries, outcomes, i + batchSize + 1, batchSize,
                                   TranslateBatch(batch, outcomes, run))

\* the batch loop: for (i = 0; i < entriesToTranslate.length; i += BATCH_SIZE)
\* over batch = entriesToTranslate.slice(i, i + BATCH_SIZE)
RECURSIVE TranslateBatches(_, _, _, _, _)
TranslateBatches(entries, outcomes, i, batchSize, run) ==
  IF i >= Len(entries) THEN run
  ELSE LET batch == SubSeq(entries, i + 1, Min(i + batchSize, Len(entries)))
       IN TranslateBatches(entries, outcomes, i + batchSize, batchSize,
                           TranslateBatch(batch, outcomes, run))

\* the content written to the CSV file, as the lines of the file
ResultTableOf(allTranslations) ==
  LET csvLines == [i \in 1..Len(allTranslations) |-> CsvLine(allTranslations[i])]
      csvContent == JoinLines(csvLines)
  IN SplitLines(csvContent)

\* as StagingListOf, writing back the trimmed lines the run translated from
StagingListOfTrimmed(currentLines, newTranslateFromIndex) ==
  IF StartsWith(currentLines[1], TranslateFromMarker)
  THEN SplitLines(JoinLines(
         [[i \in 1..Len(currentLines) |-> Trim(currentLines[i])] EXCEPT
            ![1] = <<TranslateFromMarker>> \o NumToStr(newTranslateFromIndex)]))
  ELSE currentLines

\* the input file after the header update, which is made only when the first
\* line starts with the marker
StagingListOf(currentLines, newTranslateFromIndex) ==
  IF StartsWith(currentLines[1], TranslateFromMarker)
  THEN SplitLines(JoinLines(
         [currentLines EXCEPT
            ![1] = <<TranslateFromMarker>> \o NumToStr(newTranslateFromIndex)]))
  ELSE currentLines

\* as TranslatorWrites, with the header written before the CSV file
TranslatorWritesHeaderFirst(allTranslations, currentLines, newTranslateFromIndex) ==
  (IF StartsWith(currentLines[1], TranslateFromMarker)
   THEN <<[file |-> "txt",
           content |-> StagingListOf(currentLines, newTranslateFromIndex)]>>
   ELSE <<>>)
    \o <<[file |-> "csv", content |-> ResultTableOf(allTranslations)]>>

\* the writeFileSync calls of a run that has translations, in order: the CSV
\* file, then the input file if its first line starts with the marker
TranslatorWrites(allTranslations, currentLines, newTranslateFromIndex) ==
  <<[file |-> "csv", content |-> ResultTableOf(allTranslations)]>>
    \o IF StartsWith(currentLines[1], TranslateFromMarker)
       THEN <<[file |-> "txt",
               content |-> StagingListOf(currentLines, newTranslateFromIndex)]>>
       ELSE <<>>

\* the content of the file called name after the writes, content before them
RECURSIVE AfterWrites(_, _, _)
AfterWrites(content, name, writes) ==
  IF writes = <<>> THEN content
  ELSE AfterWrites(IF Head(writes).file = name THEN Head(writes).content
                   ELSE content,
                   name, Tail(writes))

\* translateEntries() with batches of batchSize; hasKey is whether
\* OPENAI_API_KEY is set, outcomes[i] is what the i-th call of the translation
\* capability does, one of callOutcomes
TranslateSized(hasKey, callOutcomes, batchSize) ==
  /\ steps < MaxSteps
  /\ steps' = steps + 1
  /\ UNCHANGED clippings
  /\ IF MissingSetup(hasKey, txt)
     THEN /\ last' = [NoOp("translate") EXCEPT !.outcome = "fatal",
                                               !.hasKey = hasKey]
          /\ UNCHANGED <<txt, csv>>
     ELSE LET metadata == getFileMetadata(txt)
              lines == [i \in 1..Len(txt) |-> Trim(txt[i])]
              startIndex == metadata.translateFromIndex - 1
              entriesToTranslate == SelectSeq(Slice(lines, startIndex), NonEmpty)
              existingTranslations == getExistingTranslations(csv)
          IN IF entriesToTranslate = <<>>
             THEN /\ last' = [NoOp("translate") EXCEPT !.outcome = "noop",
                                                       !.hasKey = hasKey,
                                                       !.startIndex = startIndex]
                  /\ UNCHANGED <<txt, csv>>
             ELSE \E outcomes \in [1..Len(entriesToTranslate) -> callOutcomes] :
                    LET run == TranslateBatches(entriesToTranslate, outcomes, 0,
                                                batchSize,
                                                [newTranslations |-> <<>>,
                                                 events |-> <<>>])
                        newTranslations == run.newTranslations
                        allTranslations == existingTranslations \o newTranslations
                        newTranslateFromIndex ==
                          Len(newTranslations) + metadata.translateFromIndex
                        currentLines == txt
                        writes == TranslatorWrites(allTranslations, currentLines,
                                                   newTranslateFromIndex)
                    IN /\ csv' = AfterWrites(csv, "csv", writes)
                       /\ txt' = AfterWrites(txt, "txt", writes)
                       /\ last' = [NoOp("translate") EXCEPT
                                     !.outcome = "written",
                                     !.hasKey = hasKey,
                                     !.startIndex = startIndex,
                                     !.positions = PositionsToTranslate(lines, startIndex),
                                     !.outcomes = outcomes,
                                     !.entries = entriesToTranslate,
                                     !.batchSize = batchSize,
                                     !.events = run.events,
                                     !.writes = writes,
                                     !.newTranslations = newTranslations]

TranslateWith(hasKey, callOutcomes) ==
  TranslateSized(hasKey, callOutcomes, BATCH_SIZE)

TranslateRun(hasKey) == TranslateWith(hasKey, CallOutcomes)

\* The operator adds one entry at the end of the Staging List (README, step 2).
HumanAppend(entry) ==
  /\ steps < MaxSteps
  /\ txt # NoFile
  /\ steps' = steps + 1
  /\ txt' = IF txt[Len(txt)] = EmptyLine
            THEN SubSeq(txt, 1, Len(txt) - 1) \o <<entry, EmptyLine>>
            ELSE txt \o <<entry>>
  /\ last' = NoOp("append")
  /\ UNCHANGED <<clippings, csv>>

\* The device appends one more block to the export.
AddHighlight(block) ==
  /\ steps < MaxSteps
  /\ steps' = steps + 1
  /\ clippings' = clippings \o <<block>>
  /\ last' = NoOp("export")
  /\ UNCHANGED <<txt, csv>>

NewBlocks ==
  {HighlightBlock(BOOK_NAME, <<"baz">>),
   <<<<BOOK_NAME>>, <<"- Your Bookmark">>>>}

Next ==
  \/ \E clippingsExist \in BOOLEAN : ExtractRun(clippingsExist)
  \/ \E hasKey \in BOOLEAN : TranslateRun(hasKey)
  \/ \E entry \in NewEntries : HumanAppend(entry)
  \/ \E block \in NewBlocks : AddHighlight(block)

Spec == Init /\ [][Next]_vars

\* Translator runs and appends only, from a Staging List nothing of which is
\* translated yet and no Result Table.
FreshStagingLists ==
  {<<TranslateFromHeader(0), <<"foo">>, <<"bar">>, EmptyLine>>,
   <<TranslateFromHeader(0), <<"foo">>, EmptyLine>>,
   <<TranslateFromHeader(1), <<"foo">>, <<"bar">>, EmptyLine>>}

InitTranslator ==
  /\ clippings \in InitExports
  /\ txt \in FreshStagingLists
  /\ csv = NoFile
  /\ steps = 0
  /\ last = [NoOp("init") EXCEPT !.txtBefore = NoFile, !.csvBefore = NoFile]

NextTranslator ==
  \/ \E hasKey \in BOOLEAN : TranslateRun(hasKey)
  \/ \E entry \in NewEntries : HumanAppend(entry)

SpecTranslator == InitTranslator /\ [][NextTranslator]_vars

\* ------------------------------------------------- reading the two files
IsHeader(line) ==
  StartsWith(line, TranslateFromMarker) \/ StartsWith(line, LastProcessedMarker)

\* the entry lines of a Staging List: its non-blank lines, the header apart
EntryLines(file) ==
  IF file = NoFile THEN <<>>
  ELSE SelectSeq([i \in 1..Len(file) |-> Trim(file[i])],
                 LAMBDA l : Len(l) > 0 /\ ~IsHeader(l))

EntryCount(file) == Len(EntryLines(file))

\* the rows of a Result Table
Rows(file) == IF file = NoFile THEN <<>> ELSE SelectSeq(file, NonBlank)

Originals(file) ==
  LET rows == getExistingTranslations(file)
  IN [i \in 1..Len(rows) |-> rows[i].original]

\* the number a "# Translate from: n" header records
HasTranslateFrom(file) ==
  /\ file # NoFile
  /\ StartsWith(file[1], TranslateFromMarker)
  /\ TranslateFromMatchPos(file[1]) # 0

RecordedTranslateFrom(file) ==
  ParseInt(DigitRun(file[1], TranslateFromMatchPos(file[1]) + 1))

\* the number a "# Last processed: Index: i" header records, -1 without one
RecordedIndex(file) ==
  IF /\ file # NoFile
     /\ StartsWith(file[1], LastProcessedMarker)
     /\ Len(file[1]) >= 3
     /\ file[1][2] = IndexLabel
     /\ IsDigit(file[1][3])
  THEN ParseInt(DigitRun(file[1], 3))
  ELSE 0 - 1

IsPrefix(s, t) == Len(s) <= Len(t) /\ SubSeq(t, 1, Len(s)) = s

Ordinal(h) == ParseInt(h.location)

RanOk(l, op) == l.op = op /\ l.outcome \in {"written", "noop"}

\* ------------------------------------------------------------- claims
\* C1: of two consecutive Extractor runs over the same export, the second
\* leaves the Staging List byte for byte as the first left it.
C1_SecondExtractIsNoOp ==
  [][(RanOk(last, "extract") /\ RanOk(last', "extract") /\ clippings' = clippings)
       => txt' = txt]_vars

\* C2: after a Translator run, in a history of Translator runs and appends
\* only, the originals of the Result Table rows are exactly the entry lines of
\* the Staging List, in order (so none is skipped, doubled, and the header
\* is not among them).
C2_EveryEntryExactlyOnce ==
  RanOk(last, "translate") => Originals(csv) = EntryLines(txt)

\* C3: a Translator run advances translateFromIndex by the number of rows it
\* appended.
C3_AdvanceEqualsAppended ==
  (RanOk(last, "translate") /\ HasTranslateFrom(last.txtBefore))
    => /\ HasTranslateFrom(txt)
       /\ RecordedTranslateFrom(txt)
            = RecordedTranslateFrom(last.txtBefore) + Len(last.newTranslations)

\* C4: a Translator run that directly follows a Translator run appends no row
\* and leaves translateFromIndex as it was, header or no header.
C4_SecondTranslateIsNoOp ==
  [][(RanOk(last, "translate") /\ RanOk(last', "translate"))
       => /\ last'.newTranslations = <<>>
          /\ Rows(csv') = Rows(csv)
          /\ getFileMetadata(txt').translateFromIndex
               = getFileMetadata(txt).translateFromIndex]_vars

\* C5: from "# Translate from: 0", n entries and no Result Table, one run
\* leaves n rows, one per entry in order, and the header "# Translate from: n".
C5_FreshRun ==
  (/\ RanOk(last, "translate")
   /\ last.txtBefore[1] = TranslateFromHeader(0)
   /\ last.csvBefore = NoFile)
    => /\ Len(Rows(csv)) = EntryCount(last.txtBefore)
       /\ Originals(csv) = EntryLines(last.txtBefore)
       /\ txt[1] = TranslateFromHeader(EntryCount(last.txtBefore))

\* C6: the recorded lastExtractedIndex never decreases, and after an Extractor
\* run that matched highlights it is the largest ordinal matched.
C6_LastExtractedIndex ==
  [][/\ RecordedIndex(txt') >= RecordedIndex(txt)
     /\ (RanOk(last', "extract") /\ last'.allHighlights # <<>>)
          => RecordedIndex(txt')
               = Ordinal(last'.allHighlights[Len(last'.allHighlights)])]_vars

\* C7: on a Staging List that records lastExtractedIndex = k, an Extractor run
\* appends, after the existing entries, exactly the texts of the matched
\* highlights with ordinal above k, in ordinal order.
C7_AppendsOnlyAboveIndex ==
  (RanOk(last, "extract") /\ RecordedIndex(last.txtBefore) >= 0)
    => LET above == SelectSeq(last.allHighlights,
                              LAMBDA h : Ordinal(h) > RecordedIndex(last.txtBefore))
       IN EntryLines(txt)
            = EntryLines(last.txtBefore)
                \o SelectSeq([i \in 1..Len(above) |-> JoinText(above[i].text)], NonEmpty)

\* C8: a Translator run that writes leaves the rows the Result Table had as
\* the first rows of the table, unchanged.
C8_RowsOnlyAppended ==
  (last.op = "translate" /\ last.outcome = "written")
    => IsPrefix(Rows(last.csvBefore), Rows(csv))

\* C9: an entry whose translation call throws gets a row with the failure
\* marker, counts in the advance of translateFromIndex like any entry, and is
\* not translated again by the Translator run that follows.
C9_FailedEntryIsProcessed ==
  [][(last.op = "translate" /\ last.outcome = "written" /\ RanOk(last', "translate"))
       => \A i \in 1..Len(last.outcomes) :
            last.outcomes[i] = Throws
              => /\ last.newTranslations[i].translation = <<TranslationError>>
                 /\ \E r \in 1..Len(csv) : csv[r] = CsvLine(last.newTranslations[i])
                 /\ getFileMetadata(txt).translateFromIndex
                      = getFileMetadata(last.txtBefore).translateFromIndex
                          + Len(last.newTranslations)
                 /\ \A j \in 1..Len(last'.positions) :
                      last'.positions[j] # last.positions[i]]_vars

\* C10: the translateFromIndex a Staging List records is at least 0 and at
\* most the number of its entry lines.
C10_TranslateFromWithinEntries ==
  HasTranslateFrom(txt)
    => /\ 0 <= RecordedTranslateFrom(txt)
       /\ RecordedTranslateFrom(txt) <= EntryCount(txt)

\* C11: each Translator run changes the number of Result Table rows by the
\* number of entries it translated, so after N runs the table has its first
\* number of rows plus the entries translated in the N runs.
C11_RowCount ==
  RanOk(last, "translate")
    => Len(Rows(csv)) = Len(Rows(last.csvBefore)) + Len(last.newTranslations)

\* C12: on a Staging List whose first line is no metadata header, a Translator
\* run translates every entry line, from the first on.
C12_NoHeaderTranslatesAll ==
  (RanOk(last, "translate") /\ ~IsHeader(last.txtBefore[1]))
    => [i \in 1..Len(last.newTranslations) |-> last.newTranslations[i].original]
         = EntryLines(last.txtBefore)

\* the number after "Translate from: " in the first line, in either header
\* format, -1 without one
RecordedTranslateFromAny(file) ==
  IF file # NoFile /\ IsHeader(file[1]) /\ TranslateFromMatchPos(file[1]) # 0
  THEN ParseInt(DigitRun(file[1], TranslateFromMatchPos(file[1]) + 1))
  ELSE 0 - 1

\* C13: an Extractor run leaves the recorded translateFromIndex as it was and
\* a Translator run leaves the recorded lastExtractedIndex as it was, in each
\* header format.
C13_ForeignFieldKept ==
  /\ RanOk(last, "extract")
       => RecordedTranslateFromAny(txt) = RecordedTranslateFromAny(last.txtBefore)
  /\ RanOk(last, "translate")
       => RecordedIndex(txt) = RecordedIndex(last.txtBefore)

\* C14: after an Extractor run that writes, the first line of the Staging
\* List is a metadata header and no later line is.
C14_HeaderFirst ==
  (last.op = "extract" /\ last.outcome = "written")
    => /\ IsHeader(txt[1])
       /\ \A i \in 2..Len(txt) : ~IsHeader(txt[i])

\* --------------------------------------------- getFileMetadata on any file
SeqsUpTo(S, n) == UNION {[1..k -> S] : k \in 0..n}

HeaderTokens ==
  {TranslateFromMarker, LastProcessedMarker, PipeTranslateFrom, "4", "2", "foo"}

\* no file, or a file whose first line is any line of at most MaxHeaderLen
\* tokens, alone or followed by an entry
MetadataFiles ==
  {NoFile}
    \cup {<<l>> : l \in SeqsUpTo(HeaderTokens, MaxHeaderLen)}
    \cup {<<l, <<"foo">>, EmptyLine>> : l \in SeqsUpTo(HeaderTokens, MaxHeaderLen)}

InitMetadata ==
  /\ clippings \in InitExports
  /\ txt \in MetadataFiles
  /\ csv = NoFile
  /\ steps = 0
  /\ last = [NoOp("init") EXCEPT !.txtBefore = NoFile, !.csvBefore = NoFile]

\* const metadata = getFileMetadata(path), as both programs call it
ReadMetadata ==
  /\ steps = 0
  /\ steps' = 1
  /\ last' = [op |-> "read", outcome |-> "done", txtBefore |-> txt,
              metadata |-> getFileMetadata(txt)]
  /\ UNCHANGED <<clippings, txt, csv>>

SpecMetadata == InitMetadata /\ [][ReadMetadata]_vars

\* C15: for every file, getFileMetadata returns a record whose indices are
\* -1 wherever no header gives them: a missing file, a first line without the
\* marker, a marker with no number after it.
C15_MetadataSentinels ==
  last.op = "read"
    => /\ DOMAIN last.metadata = {"lastProcessedIndex", "translateFromIndex"}
       /\ RecordedIndex(txt) = 0 - 1 => last.metadata.lastProcessedIndex = 0 - 1
       /\ ~HasTranslateFrom(txt) => last.metadata.translateFromIndex = 0 - 1
       /\ last.metadata.translateFromIndex >= 0 - 1

\* a file whose first line has the marker and no number after it was read
C15_Witness ==
  /\ last.op = "read"
  /\ txt # NoFile
  /\ StartsWith(txt[1], TranslateFromMarker)
  /\ ~HasTranslateFrom(txt)
  /\ last.metadata.translateFromIndex = 0 - 1

\* C16: a run with no work writes nothing and is no error: an Extractor run
\* that matches no highlight, or none above the index the header records, leaves
\* the Staging List as it was; a Translator run on a Staging List with no
\* entry at or after the index its header records leaves the Staging List and
\* the Result Table as they were.
C16_EmptyWorkWritesNothing ==
  /\ ( /\ last.op = "extract" /\ last.clippingsExist
       /\ \A i \in 1..Len(last.allHighlights) :
            Ordinal(last.allHighlights[i]) <= RecordedIndex(last.txtBefore) )
       => (last.outcome = "noop" /\ txt = last.txtBefore)
  /\ ( /\ last.op = "translate" /\ last.outcome # "fatal"
       /\ EntryCount(last.txtBefore)
            <= (IF HasTranslateFrom(last.txtBefore)
                THEN RecordedTranslateFrom(last.txtBefore) ELSE 0) )
       => (last.outcome = "noop" /\ txt = last.txtBefore /\ csv = last.csvBefore)

\* C17: a Translator run without the credential or without the Staging List,
\* and an Extractor run without the export file, end in the error outcome with
\* the Staging List (and the checkpoint in its header) and the Result Table
\* as they were.
C17_FatalSetupMutatesNothing ==
  /\ (last.op = "translate" /\ (~last.hasKey \/ last.txtBefore = NoFile))
       => (last.outcome = "fatal" /\ txt = last.txtBefore /\ csv = last.csvBefore)
  /\ (last.op = "extract" /\ ~last.clippingsExist)
       => (last.outcome = "fatal" /\ txt = last.txtBefore /\ csv = last.csvBefore)

\* a Translator run without the credential aborted although the Staging List
\* had entries it would have translated
C17_Witness ==
  /\ last.op = "translate" /\ ~last.hasKey /\ last.outcome = "fatal"
  /\ txt # NoFile
  /\ SelectSeq(Slice([i \in 1..Len(txt) |-> Trim(txt[i])],
                     getFileMetadata(txt).translateFromIndex - 1), NonEmpty) # <<>>
  /\ csv # NoFile

\* a block of the target work with the three lines that reach the text
WellFormedTargetBlock(entry) ==
  LET lines == BlockLines(entry)
  IN /\ Len(lines) >= 3
     /\ \E i \in 1..Len(lines[1]) : lines[1][i] = BOOK_NAME

\* C18: a block with fewer than three lines is skipped even when it is of the
\* target work: the highlights of a run are as many as the well-formed target
\* blocks of the export, each with a text, and the run writes no line for
\* the malformed block.
C18_MalformedBlockSkipped ==
  RanOk(last, "extract")
    => /\ Len(last.allHighlights)
            = Len(SelectSeq(clippings, WellFormedTargetBlock))
       /\ \A i \in 1..Len(last.allHighlights) :
            last.allHighlights[i].text # Undefined
       /\ last.outcome = "written"
            => \A i \in 1..(Len(txt) - 1) : txt[i] # EmptyLine

\* ------------------------------------- the Translator under more replies
\* a plain reply, replies with a comma and with quotes, and the empty reply
PunctuatedReplies ==
  {<<"Ola", Dot>>, <<"um", Comma, Space, "dois">>, <<Quote, "Ola", Quote>>, <<>>}

InitReplies ==
  /\ clippings = <<HighlightBlock(BOOK_NAME, <<"foo">>)>>
  /\ txt \in FreshStagingLists
  /\ csv \in InitResultTables
  /\ steps = 0
  /\ last = [NoOp("init") EXCEPT !.txtBefore = NoFile, !.csvBefore = NoFile]

NextReplies ==
  \/ \E hasKey \in BOOLEAN : TranslateWith(hasKey, PunctuatedReplies)
  \/ \E entry \in NewEntries : HumanAppend(entry)

SpecReplies == InitReplies /\ [][NextReplies]_vars

\* the two fields of the row the Translator writes for an entry
WrittenPair(entry) ==
  [original |-> Remove(entry.original, Quote),
   translation |-> Trim(ToLowerCase(Remove(entry.translation, Quote)))]

Has(s, c) == \E i \in 1..Len(s) : s[i] = c

\* C19: no field a Translator run writes has a quote, no translation it writes
\* has a comma, and reading the Result Table back gives, row by row, the pairs
\* the run wrote.
C19_RowsReadBack ==
  (last.op = "translate" /\ last.outcome = "written")
    => LET pairs == getExistingTranslations(last.csvBefore) \o last.newTranslations
           written == [i \in 1..Len(pairs) |-> WrittenPair(pairs[i])]
       IN /\ \A i \in 1..Len(written) :
               /\ ~Has(written[i].original, Quote)
               /\ ~Has(written[i].translation, Quote)
               /\ ~Has(written[i].translation, Comma)
          /\ getExistingTranslations(csv) = written

\* ----------------------------------------------- parseClippings on any export
ExportBlocks ==
  {HighlightBlock(BOOK_NAME, <<"foo">>),
   HighlightBlock(BOOK_NAME, <<"Bar", Dot>>),
   <<<<BOOK_NAME>>, <<"- Your Bookmark">>>>,
   HighlightBlock(OtherBook, <<"dog">>),
   <<<<OtherBook>>, <<"- Your Bookmark">>>>}

InitParse ==
  /\ clippings \in SeqsUpTo(ExportBlocks, MaxBlocks)
  /\ txt = NoFile
  /\ csv = NoFile
  /\ steps = 0
  /\ last = [NoOp("init") EXCEPT !.txtBefore = NoFile, !.csvBefore = NoFile]

\* const allHighlights = parseClippings(content, BOOK_NAME)
ParseExport ==
  /\ steps = 0
  /\ steps' = 1
  /\ last' = [op |-> "parse", outcome |-> "done",
              allHighlights |-> parseClippings(clippings, BOOK_NAME)]
  /\ UNCHANGED <<clippings, txt, csv>>

SpecParse == InitParse /\ [][ParseExport]_vars

\* the attribution line of the block names another work
OfOtherWork(entry) ==
  Len(entry) >= 1 /\ \A i \in 1..Len(entry[1]) : entry[1][i] # BOOK_NAME

RemoveAt(seq, k) == SubSeq(seq, 1, k - 1) \o SubSeq(seq, k + 1, Len(seq))

\* C20: the highlights parseClippings returns carry the ordinals 0, 1, 2, ...
\* in export order, and the export without any one of its blocks of other
\* works gives the same texts with the same ordinals.
C20_OrdinalsAmongTargetWork ==
  last.op = "parse"
    => /\ \A i \in 1..Len(last.allHighlights) :
            last.allHighlights[i].location = NumToStr(i - 1)
       /\ \A k \in 1..Len(clippings) :
            OfOtherWork(clippings[k])
              => parseClippings(RemoveAt(clippings, k), BOOK_NAME)
                   = last.allHighlights

\* an export with a block of another work between two highlights of the
\* target work was parsed
C20_Witness ==
  /\ last.op = "parse"
  /\ \E k \in 2..(Len(clippings) - 1) :
       /\ OfOtherWork(clippings[k])
       /\ WellFormedTargetBlock(clippings[k - 1])
       /\ WellFormedTargetBlock(clippings[k + 1])
  /\ Len(last.allHighlights) = 2
  /\ Ordinal(last.allHighlights[2]) = 1

\* ----------------------------------- the Extractor on hand-edited lists
\* Staging Lists with surrounding whitespace, blank and whitespace-only
\* lines, a hand-written line, and no newline at the end
EditedStagingLists ==
  {NoFile,
   <<<<Space, "foo", Space>>, EmptyLine, <<"bar">>, EmptyLine>>,
   <<TranslateFromHeader(0), <<"foo">>, <<Space>>, <<"qux", Space, "quux">>, EmptyLine>>,
   <<LastProcessedHeader(0), <<Space, "foo">>, EmptyLine>>,
   <<<<"foo">>, <<"bar", Space>>>>}

InitExtract ==
  /\ clippings \in InitExports
  /\ txt \in EditedStagingLists
  /\ csv = NoFile
  /\ steps = 0
  /\ last = [NoOp("init") EXCEPT !.txtBefore = NoFile, !.csvBefore = NoFile]

NextExtract ==
  \/ \E clippingsExist \in BOOLEAN : ExtractRun(clippingsExist)
  \/ \E entry \in NewEntries : HumanAppend(entry)
  \/ \E block \in NewBlocks : AddHighlight(block)

SpecExtract == InitExtract /\ [][NextExtract]_vars

\* the entry lines of a Staging List as they stand in the file
RawEntryLines(file) ==
  IF file = NoFile THEN <<>>
  ELSE SelectSeq(file, LAMBDA l : NonBlank(l) /\ ~IsHeader(Trim(l)))

\* C21 as stated: the entry lines before an Extractor run that writes are,
\* line for line as they stand in the file, a prefix of the entry lines after.
C21_LinesUntouched ==
  (last.op = "extract" /\ last.outcome = "written")
    => IsPrefix(RawEntryLines(last.txtBefore), RawEntryLines(txt))

\* C21: the entry lines before an Extractor run that writes, each without its
\* surrounding whitespace, are in the same order a prefix of the entry lines
\* after the run.
C21_TrimmedLinesKept ==
  (last.op = "extract" /\ last.outcome = "written")
    => IsPrefix(EntryLines(last.txtBefore), EntryLines(txt))

\* an Extractor run appended to a list that had an entry with surrounding
\* whitespace and a blank line between entries
C21_Witness ==
  /\ last.op = "extract" /\ last.outcome = "written"
  /\ last.txtBefore # NoFile
  /\ \E i \in 1..Len(last.txtBefore) :
       NonBlank(last.txtBefore[i]) /\ Trim(last.txtBefore[i]) # last.txtBefore[i]
  /\ \E i \in 1..(Len(last.txtBefore) - 1) : ~NonBlank(last.txtBefore[i])
  /\ EntryCount(txt) > EntryCount(last.txtBefore)

\* ------------------------------------------ the Translator by batch size
BatchStagingLists ==
  {<<TranslateFromHeader(1), <<"foo">>, <<"bar">>, <<"baz">>, EmptyLine>>,
   <<TranslateFromHeader(1), <<"foo">>, <<"bar">>, <<"baz">>, <<"qux">>, EmptyLine>>,
   <<TranslateFromHeader(0), <<"foo">>, EmptyLine>>,
   <<TranslateFromHeader(1), <<Space, "foo">>, EmptyLine, <<"bar">>>>,
   <<<<"foo">>, <<"bar">>, <<"baz">>, EmptyLine>>}

InitBatch ==
  /\ clippings = <<HighlightBlock(BOOK_NAME, <<"foo">>)>>
  /\ txt \in BatchStagingLists
  /\ csv = NoFile
  /\ steps = 0
  /\ last = [NoOp("init") EXCEPT !.txtBefore = NoFile, !.csvBefore = NoFile]

NextBatch ==
  \/ \E hasKey \in BOOLEAN, batchSize \in 1..MaxBatchSize :
       TranslateSized(hasKey, CallOutcomes, batchSize)
  \/ \E entry \in NewEntries : HumanAppend(entry)

SpecBatch == InitBatch /\ [][NextBatch]_vars

\* the entries translated one by one in order, the k-th by the k-th call
OneByOne(entries, outcomes) ==
  [k \in 1..Len(entries) |-> TranslationOf(entries[k], outcomes[k])]

\* C22: whatever the batch size and whatever the capability does, the
\* translations of a run, the Result Table it writes and the Staging List with
\* the header it writes are those of translating the entries one by one.
C22_BatchSizeHasNoEffect ==
  (last.op = "translate" /\ last.outcome = "written")
    => LET oneByOne == OneByOne(last.entries, last.outcomes)
       IN /\ last.newTranslations = oneByOne
          /\ csv = ResultTableOf(getExistingTranslations(last.csvBefore) \o oneByOne)
          /\ txt = StagingListOf(last.txtBefore,
                                 Len(oneByOne)
                                   + getFileMetadata(last.txtBefore).translateFromIndex)

\* a run went over more than one batch, the last one not full, with a call
\* that failed
C22_Witness ==
  /\ last.op = "translate" /\ last.outcome = "written"
  /\ last.batchSize = 2
  /\ Len(last.entries) = 3
  /\ \E k \in 1..3 : last.outcomes[k] = Throws
  /\ Len(Rows(csv)) > Len(Rows(last.csvBefore))

\* C23: a Translator run calls the capability once for each entry, in the
\* order of the Staging List, each call followed by the delay, whether it
\* failed or not and wherever the batches end; a failed call is not repeated
\* and does not end the run, which goes on to the last entry and writes.
C23_OneCallPerEntryThenDelay ==
  (last.op = "translate" /\ last.outcome \in {"written", "noop"})
    => /\ Len(last.events) = 2 * Len(last.entries)
       /\ \A k \in 1..Len(last.entries) :
            /\ last.events[2 * k - 1] = [kind |-> "call", entry |-> last.entries[k]]
            /\ last.events[2 * k] = [kind |-> "delay", entry |-> last.entries[k]]
       /\ Len(last.newTranslations) = Len(last.entries)
       /\ last.entries # <<>> => last.outcome = "written"

\* a run in which the first call failed, at the end of a batch, and the next
\* entry was still called and the run wrote
C23_Witness ==
  /\ last.op = "translate" /\ last.outcome = "written"
  /\ last.batchSize = 1
  /\ Len(last.entries) >= 2
  /\ last.outcomes[1] = Throws
  /\ last.events[2].kind = "delay"
  /\ last.events[3] = [kind |-> "call", entry |-> last.entries[2]]
  /\ last.newTranslations[1].translation = <<TranslationError>>

\* the Staging List with the Translate from value of its header set to t
WithTranslateFrom(file, t) ==
  LET pos == TranslateFromMatchPos(file[1])
  IN [file EXCEPT ![1] = SubSeq(file[1], 1, pos) \o NumToStr(t)]

\* C24: the highlights an Extractor run takes as new are the same for every
\* Translate from value the header of the Staging List could have had, the
\* export (of well-formed blocks) and the rest of the Staging List being the
\* same.
C24_NewHighlightsIgnoreTranslateFrom ==
  ( /\ RanOk(last, "extract")
    /\ RecordedTranslateFromAny(last.txtBefore) >= 0
    /\ \A k \in 1..Len(clippings) :
         IsTargetBlock(clippings[k], BOOK_NAME) => WellFormedTargetBlock(clippings[k]) )
    => \A t \in 0..2 :
         NewHighlights(parseClippings(clippings, BOOK_NAME),
                       getFileMetadata(WithTranslateFrom(last.txtBefore, t)))
           = last.newHighlights

\* C25: after a Translator run the Staging List has the lines it had before,
\* each as it stood and in the same place, the end of the file included; only
\* a first line that is a header may differ.
C25_OnlyHeaderChanges ==
  last.op = "translate"
    => /\ Len(txt) = Len(last.txtBefore)
       /\ \A i \in 1..Len(txt) :
            txt[i] # last.txtBefore[i] => (i = 1 /\ IsHeader(last.txtBefore[1]))

\* a run rewrote the header of a list that has an entry with surrounding
\* whitespace, a blank line between entries and no newline at the end
C25_Witness ==
  /\ last.op = "translate" /\ last.outcome = "written"
  /\ txt[1] # last.txtBefore[1]
  /\ \E i \in 2..Len(txt) : NonBlank(txt[i]) /\ Trim(txt[i]) # txt[i]
  /\ \E i \in 2..(Len(txt) - 1) : txt[i] = EmptyLine
  /\ txt[Len(txt)] # EmptyLine

\* C26: a Translator run writes the Result Table at most once and the Staging
\* List at most once, the Staging List only after the Result Table, and a run
\* that ends without writing the Result Table leaves both files as they were.
C26_WritesOnceInOrder ==
  last.op = "translate"
    => LET w == last.writes
       IN /\ Len(SelectSeq(w, LAMBDA x : x.file = "csv")) <= 1
          /\ Len(SelectSeq(w, LAMBDA x : x.file = "txt")) <= 1
          /\ \A i \in 1..Len(w) :
               w[i].file = "txt" => \E j \in 1..(i - 1) : w[j].file = "csv"
          /\ (\A i \in 1..Len(w) : w[i].file # "csv")
               => (txt = last.txtBefore /\ csv = last.csvBefore)
          /\ last.outcome \in {"fatal", "noop"} => w = <<>>
          /\ txt # last.txtBefore => csv = w[1].content

\* a run wrote the Result Table and then the header
C26_Witness ==
  /\ last.op = "translate" /\ last.outcome = "written"
  /\ Len(last.writes) = 2
  /\ last.writes[2].file = "txt"
  /\ txt = last.writes[2].content /\ txt # last.txtBefore
  /\ csv # last.csvBefore

====
